---- MODULE Spec2Model ----
(***************************************************************************)
(* Model of the acronym bot of src/app.py: one sqlite table `acronyms`,    *)
(* the slash command /wtf, the add / edit dialogs and the delete buttons.  *)
(*                                                                         *)
(* Python strings are sequences of one-character strings, so that strip,   *)
(* upper, split and the id|term token are computed, not assumed.           *)
(* The column created_at is written by add_acronym and never read by any   *)
(* statement of the program; it is left out of the rows.                   *)
(***************************************************************************)
EXTENDS Integers, Sequences, FiniteSets, TLC

VARIABLES acronyms, sqlite_sequence, msgs, view, last, calls

vars == <<acronyms, sqlite_sequence, msgs, view, last, calls>>

(***************************************************************************)
(* Bounds                                                                  *)
(***************************************************************************)
\* largest id the model lets AUTOINCREMENT hand out
MaxId == 3
\* longest list of expansions format_defs is called with directly
MaxLines == 3

(***************************************************************************)
(* str: the string methods the program uses                                *)
(***************************************************************************)
lowercase == <<"a","b","c","d","e","f","g","h","i","j","k","l","m",
               "n","o","p","q","r","s","t","u","v","w","x","y","z">>
uppercase == <<"A","B","C","D","E","F","G","H","I","J","K","L","M",
               "N","O","P","Q","R","S","T","U","V","W","X","Y","Z">>
digits == <<"0","1","2","3","4","5","6","7","8","9">>
whitespace == {" ", "\t", "\n", "\r"}

IndexOf(c, table) == CHOOSE i \in 1..Len(table) : table[i] = c
IsIn(c, table) == \E i \in 1..Len(table) : table[i] = c

\* the case mappings of the ASCII letters, as tables
to_upper == [c \in {lowercase[i] : i \in 1..Len(lowercase)} |-> uppercase[IndexOf(c, lowercase)]]
to_lower == [c \in {uppercase[i] : i \in 1..Len(uppercase)} |-> lowercase[IndexOf(c, uppercase)]]

upper_char(c) == IF c \in DOMAIN to_upper THEN to_upper[c] ELSE c
lower_char(c) == IF c \in DOMAIN to_lower THEN to_lower[c] ELSE c

\* str.upper()
upper(s) == [i \in 1..Len(s) |-> upper_char(s[i])]
\* str.lower()
lower(s) == [i \in 1..Len(s) |-> lower_char(s[i])]

RECURSIVE lstrip(_)
lstrip(s) == IF s # <<>> /\ Head(s) \in whitespace THEN lstrip(Tail(s)) ELSE s
RECURSIVE rstrip(_)
rstrip(s) ==
    IF s # <<>> /\ s[Len(s)] \in whitespace THEN rstrip(SubSeq(s, 1, Len(s) - 1)) ELSE s
\* str.strip()
strip(s) == rstrip(lstrip(s))

\* str.startswith(prefix)
startswith(s, prefix) == Len(s) >= Len(prefix) /\ SubSeq(s, 1, Len(prefix)) = prefix

\* re.sub(r"<@[^>]+>", "", s): every "<@", one or more characters other than
\* ">", then ">", is cut out, scanning from the left
RECURSIVE re_sub_mention(_)
re_sub_mention(s) ==
    IF s = <<>> THEN <<>>
    ELSE LET closes == {j \in 3..Len(s) : s[j] = ">"}
             close == CHOOSE j \in closes : \A k \in closes : j <= k
             matches == /\ Len(s) >= 4
                        /\ s[1] = "<"
                        /\ s[2] = "@"
                        /\ closes # {}
                        /\ close >= 4
         IN  IF matches
             THEN re_sub_mention(SubSeq(s, close + 1, Len(s)))
             ELSE <<Head(s)>> \o re_sub_mention(Tail(s))

\* length of the longest prefix of s without whitespace
RECURSIVE word_len(_)
word_len(s) == IF s = <<>> \/ Head(s) \in whitespace THEN 0 ELSE 1 + word_len(Tail(s))

\* str.split(None, maxsplit): runs of whitespace separate the parts, the rest
\* after maxsplit splits is kept whole (without its leading whitespace)
RECURSIVE split(_, _)
split(s, maxsplit) ==
    LET t == lstrip(s)
        n == word_len(t)
    IN  IF t = <<>> THEN <<>>
        ELSE IF maxsplit = 0 THEN <<t>>
        ELSE <<SubSeq(t, 1, n)>> \o split(SubSeq(t, n + 1, Len(t)), maxsplit - 1)

\* str.rsplit("|", 1) in place of str.split("|", 1): cut at the last "|"
split_bar_last(s) ==
    IF \E i \in 1..Len(s) : s[i] = "|"
    THEN LET k == CHOOSE i \in 1..Len(s) : s[i] = "|" /\ \A j \in (i + 1)..Len(s) : s[j] # "|"
         IN  <<SubSeq(s, 1, k - 1), SubSeq(s, k + 1, Len(s))>>
    ELSE <<s>>

\* str.split("|", 1): cut at the first "|"; a string without "|" gives one part
split_bar(s) ==
    IF \E i \in 1..Len(s) : s[i] = "|"
    THEN LET k == CHOOSE i \in 1..Len(s) : s[i] = "|" /\ \A j \in 1..(i - 1) : s[j] # "|"
         IN  <<SubSeq(s, 1, k - 1), SubSeq(s, k + 1, Len(s))>>
    ELSE <<s>>

\* f"{acronym_id}": the decimal digits of a natural number
RECURSIVE str(_)
str(n) == IF n < 10 THEN <<digits[n + 1]>> ELSE str(n \div 10) \o <<digits[(n % 10) + 1]>>

is_decimal(s) == s # <<>> /\ \A i \in 1..Len(s) : IsIn(s[i], digits)

\* int(aid) on a string of decimal digits
RECURSIVE int(_)
int(s) == IF s = <<>> THEN 0 ELSE 10 * int(SubSeq(s, 1, Len(s) - 1)) + (IndexOf(s[Len(s)], digits) - 1)

\* f"{aid}|{term}"
token(aid, term) == aid \o <<"|">> \o term

(***************************************************************************)
(* The table acronyms(id INTEGER PRIMARY KEY AUTOINCREMENT, term,          *)
(* expansion, created_at) as a set of rows, and its statements             *)
(***************************************************************************)
\* ORDER BY id ASC
RECURSIVE order_by_id(_)
order_by_id(rows) ==
    IF rows = {} THEN <<>>
    ELSE LET r == CHOOSE x \in rows : \A y \in rows : x.id <= y.id
         IN  <<r>> \o order_by_id(rows \ {r})

\* SELECT id, expansion FROM acronyms WHERE term = ? ORDER BY id ASC
get_acronym_ids_and_expansions(db, term) ==
    LET term_clean == upper(strip(term))
        rows == order_by_id({r \in db : r.term = term_clean})
    IN  [i \in 1..Len(rows) |-> <<rows[i].id, rows[i].expansion>>]

\* get_acronyms with ORDER BY id DESC in place of ASC
get_acronyms_desc(db, term) ==
    LET term_clean == upper(strip(term))
        rows == order_by_id({r \in db : r.term = term_clean})
    IN  [i \in 1..Len(rows) |-> rows[Len(rows) + 1 - i].expansion]

\* get_acronyms without the strip() of the term
get_acronyms_no_strip(db, term) ==
    LET term_clean == upper(term)
        rows == order_by_id({r \in db : r.term = term_clean})
    IN  [i \in 1..Len(rows) |-> rows[i].expansion]

\* SELECT expansion FROM acronyms WHERE term = ? ORDER BY id ASC
get_acronyms(db, term) ==
    LET term_clean == upper(strip(term))
        rows == order_by_id({r \in db : r.term = term_clean})
    IN  [i \in 1..Len(rows) |-> rows[i].expansion]

\* the comparison  id = ?  with a text parameter: the column's INTEGER
\* affinity converts a parameter that is a well-formed integer
id_matches(r, aid) == is_decimal(aid) /\ r.id = int(aid)

\* SELECT expansion FROM acronyms WHERE id = ?  ... fetchone()
select_expansion(db, aid) == {r.expansion : r \in {x \in db : id_matches(x, aid)}}

\* add_acronym without the upper() of the term
add_acronym_no_upper(term, expansion) ==
    LET term_clean == strip(term)
        expansion_clean == strip(expansion)
    IN  IF term_clean = <<>> \/ expansion_clean = <<>>
        THEN UNCHANGED <<acronyms, sqlite_sequence>>
        ELSE /\ acronyms' = acronyms \cup
                    {[id |-> sqlite_sequence + 1, term |-> term_clean,
                      expansion |-> expansion_clean]}
             /\ sqlite_sequence' = sqlite_sequence + 1

\* add_acronym without the early return on an empty term or expansion
add_acronym_no_check(term, expansion) ==
    /\ acronyms' = acronyms \cup
           {[id |-> sqlite_sequence + 1, term |-> upper(strip(term)),
             expansion |-> strip(expansion)]}
    /\ sqlite_sequence' = sqlite_sequence + 1

\* add_acronym on a table whose id is INTEGER PRIMARY KEY without
\* AUTOINCREMENT: the new id is one more than the largest id in the table
add_acronym_max_rowid(term, expansion) ==
    LET term_clean == upper(strip(term))
        expansion_clean == strip(expansion)
        largest == IF acronyms = {} THEN 0
                   ELSE CHOOSE n \in {r.id : r \in acronyms} : \A r \in acronyms : r.id <= n
    IN  IF term_clean = <<>> \/ expansion_clean = <<>>
        THEN UNCHANGED <<acronyms, sqlite_sequence>>
        ELSE /\ acronyms' = acronyms \cup
                    {[id |-> largest + 1, term |-> term_clean,
                      expansion |-> expansion_clean]}
             /\ sqlite_sequence' = sqlite_sequence + 1

\* INSERT INTO acronyms (term, expansion, created_at) VALUES (?, ?, ?)
add_acronym(term, expansion) ==
    LET term_clean == upper(strip(term))
        expansion_clean == strip(expansion)
    IN  IF term_clean = <<>> \/ expansion_clean = <<>>
        THEN UNCHANGED <<acronyms, sqlite_sequence>>
        ELSE /\ acronyms' = acronyms \cup
                    {[id |-> sqlite_sequence + 1, term |-> term_clean,
                      expansion |-> expansion_clean]}
             /\ sqlite_sequence' = sqlite_sequence + 1

\* delete_acronym_by_id with  WHERE id <= ?
delete_acronym_by_id_le(acronym_id) ==
    /\ acronyms' = {r \in acronyms : r.id > acronym_id}
    /\ UNCHANGED sqlite_sequence

\* delete_acronym_by_id deleting every row of the term of that id
delete_acronym_by_term(acronym_id) ==
    /\ acronyms' = {r \in acronyms :
                       \A x \in acronyms : x.id = acronym_id => r.term # x.term}
    /\ UNCHANGED sqlite_sequence

\* DELETE FROM acronyms WHERE id = ?
delete_acronym_by_id(acronym_id) ==
    /\ acronyms' = {r \in acronyms : r.id # acronym_id}
    /\ UNCHANGED sqlite_sequence

\* the UPDATE with  WHERE term = (the term of that id)
update_expansion_by_term(new_exp, aid) ==
    /\ acronyms' = {IF \E x \in acronyms : id_matches(x, aid) /\ x.term = r.term
                    THEN [r EXCEPT !.expansion = new_exp] ELSE r
                    : r \in acronyms}
    /\ UNCHANGED sqlite_sequence

\* UPDATE acronyms SET expansion = ? WHERE id = ?
update_expansion(new_exp, aid) ==
    /\ acronyms' = {IF id_matches(r, aid) THEN [r EXCEPT !.expansion = new_exp] ELSE r
                    : r \in acronyms}
    /\ UNCHANGED sqlite_sequence

(***************************************************************************)
(* Inputs: what users type                                                 *)
(***************************************************************************)
\* command["text"] of /wtf: the texts that drive the add, delete and edit flows
FlowTexts ==
    { <<"x">>,
      <<"a","d","d">>,
      <<"d","e","l","e","t","e"," ","x">>,
      <<"D","e","l","e","t","e"," "," ","Y"," ","z">>,
      <<"e","d","i","t"," ","x">>,
      <<"E","D","I","T"," ","y">> }

\* command["text"] of /wtf: the texts the router is tried on
CommandTexts ==
    { <<>>,
      <<" ">>,
      <<"x">>,
      <<" ","X"," ">>,
      <<"y">>,
      <<"a","d","d">>,
      <<"A","d","d"," ","x">>,
      <<"A","D","D","R">>,
      <<"d","e","l","e","t","e">>,
      <<"d","e","l","e","t","e"," ","x">>,
      <<"D","e","l","e","t","e"," "," ","Y"," ","z">>,
      <<"D","E","L","E","T","E","D">>,
      <<"e","d","i","t">>,
      <<"e","d","i","t"," ","x">>,
      <<"E","D","I","T"," ","y">>,
      <<"E","D","I","T","O","R">>,
      <<"a","d","d","x"," ","y">>,
      <<"x"," ","a","d","d">> }

\* command["text"] of /wtf: listings asked for with terms that contain "|"
ListingTexts ==
    { <<"d","e","l","e","t","e"," ","x">>,
      <<"e","d","i","t"," ","X">>,
      <<"d","e","l","e","t","e"," ","x","|","y">>,
      <<"E","d","i","t"," "," ","|","X","|","y"," ","z">> }

\* the term field of the add dialog, for those terms
ListingTerms == { <<"x">>, <<" ","x","|","Y"," ">>, <<"|","x","|","y">> }

\* the term field of the add dialog
TermInputs == { <<" ">>, <<"x">>, <<" ","X"," ">>, <<"y">> }

\* the expansion field of the add dialog and of the edit dialog
ExpansionInputs == { <<" ","\n">>, <<"a">>, <<" ","b"," ","c"," ">> }

\* body["event"]["text"] of an app_mention event
MentionTexts ==
    { <<"<","@","U","0",">">>,
      <<"<","@","U","0",">"," ","x">>,
      <<"<","@","U","0",">"," ","y"," ","<","@","U","2",">">>,
      <<"<","@",">"," ","x">>,
      <<"x"," ","<","@","U">> }

\* command["channel_id"]
channel_id == <<"C","1">>

\* body["user"]["id"]
user_id == <<"U","1">>

\* whether a client.chat_postEphemeral call raises
Raised == BOOLEAN
\* neither of the two notices of an edit submission raises
Delivered == <<FALSE, FALSE>>

\* the rendered messages that carry buttons
Msgs == {"m1"}

NoMsg == [kind |-> "none", buttons |-> <<>>]
NoView == [callback_id |-> "none", private_metadata |-> <<>>, initial_value |-> <<>>]

Text(kind) == [kind |-> kind, buttons |-> <<>>]
Button(action_id, value) == [action_id |-> action_id, value |-> value]

\* what the last handler run was given and did: its inputs, the branch it
\* took and the number of rows its statement returned or changed
Did(op, args, route, rowcount) ==
    [op |-> op, args |-> args, route |-> route, rowcount |-> rowcount]

(***************************************************************************)
(* What a handler run does to the outside, in the order of its statements: *)
(* ack(), the SQL statement, respond(), client.views_open(),               *)
(* client.chat_postEphemeral(), logger.exception()                         *)
(***************************************************************************)
\* the character U+0060, which a TLA+ string cannot hold
backtick == "U+0060"

Call(call, channel, response_type, text) ==
    [call |-> call, channel |-> channel, response_type |-> response_type, text |-> text]

ack == Call("ack", <<>>, "", <<>>)
execute(statement) == Call(statement, <<>>, "", <<>>)
respond(text, response_type) == Call("respond", <<>>, response_type, text)
views_open(callback_id) == Call("views_open", <<>>, callback_id, <<>>)
chat_postEphemeral(channel, text) == Call("chat_postEphemeral", channel, "", text)
logger_exception == Call("logger.exception", <<>>, "", <<>>)
say(text) == Call("say", <<>>, "", text)

\* try: client.chat_postEphemeral(...)  except Exception as e: logger.exception(e)
try_chat_postEphemeral(channel, text, raised) ==
    <<chat_postEphemeral(channel, text)>> \o (IF raised THEN <<logger_exception>> ELSE <<>>)

\* "\n".join(lines)
RECURSIVE join_lines(_)
join_lines(lines) ==
    IF lines = <<>> THEN <<>>
    ELSE IF Len(lines) = 1 THEN lines[1]
    ELSE lines[1] \o <<"\n">> \o join_lines(Tail(lines))

\* f"{idx}. {expansion}"
numbered(idx, expansion) == str(idx) \o <<".", " ">> \o expansion

\* f"*{term_clean}* has {len(expansions)} meaning(s)
has_meanings(term_clean, n) ==
    <<"*">> \o term_clean \o <<"*"," ","h","a","s"," ">> \o str(n)
    \o <<" ","m","e","a","n","i","n","g","(","s",")">>

\* f"Nothing for *{term_clean}* yet. Try `/wtf add` to submit one."
nothing_yet(term_clean) ==
    <<"N","o","t","h","i","n","g"," ","f","o","r"," ","*">>
    \o term_clean
    \o <<"*"," ","y","e","t","."," ","T","r","y"," ",backtick,"/","w","t","f"," ",
         "a","d","d",backtick," ","t","o"," ","s","u","b","m","i","t"," ","o","n","e",".">>

\* format_defs with enumerate(expansions) counting from 0
format_defs_from_zero(term, expansions) ==
    LET term_clean == upper(strip(term))
    IN  IF expansions = <<>>
        THEN nothing_yet(term_clean)
        ELSE join_lines(<<has_meanings(term_clean, Len(expansions)) \o <<":">> >>
                        \o [idx \in 1..Len(expansions) |->
                               numbered(idx - 1, expansions[idx])])

format_defs(term, expansions) ==
    LET term_clean == upper(strip(term))
    IN  IF expansions = <<>>
        THEN nothing_yet(term_clean)
        ELSE join_lines(<<has_meanings(term_clean, Len(expansions)) \o <<":">> >>
                        \o [idx \in 1..Len(expansions) |-> numbered(idx, expansions[idx])])

\* the texts of the replies of handle_acronym
usage_text ==
    <<"U","s","a","g","e",":"," ",backtick,"/","w","t","f"," ","A","T","O",backtick,
      " ","o","r"," ",backtick,"/","w","t","f"," ","a","d","d",backtick>>
usage_delete_text ==
    <<"U","s","a","g","e",":"," ",backtick,"/","w","t","f"," ","d","e","l","e",
      "t","e"," ","[","a","c","r","o","n","y","m","]",backtick>>
usage_edit_text ==
    <<"U","s","a","g","e",":"," ",backtick,"/","w","t","f"," ","e","d","i","t",
      " ","[","a","c","r","o","n","y","m","]",backtick>>
no_definitions_found(term) ==
    <<"N","o"," ","d","e","f","i","n","i","t","i","o","n","s"," ","f","o",
      "u","n","d"," ","f","o","r"," ","*">>
    \o upper(term) \o <<"*", ".">>
which_one(term, n, verb) ==
    has_meanings(upper(term), n)
    \o <<"."," ","W","h","i","c","h"," ","o","n","e"," ","d","o"," ","y",
         "o","u"," ","w","a","n","t"," ","t","o"," ">>
    \o verb \o <<"?">>
verb_delete == <<"d","e","l","e","t","e">>
verb_edit == <<"e","d","i","t">>

\* the texts of the replies to the button clicks
not_found_placeholder ==
    <<"(","d","e","f","i","n","i","t","i","o","n"," ","n","o","t"," ","f",
      "o","u","n","d",")">>
are_you_sure(term, exp) ==
    <<"A","r","e"," ","y","o","u"," ","s","u","r","e"," ","y","o","u"," ",
      "w","a","n","t"," ","t","o"," ","d","e","l","e","t","e"," ","t","h",
      "i","s"," ","d","e","f","i","n","i","t","i","o","n"," ","f","o","r",
      " ","*">>
    \o upper(term) \o <<"*", "?", "\n", ">", " ">> \o exp
deleted_text(term) ==
    <<"D","e","l","e","t","e","d"," ","o","n","e"," ","d","e","f","i","n",
      "i","t","i","o","n"," ","f","o","r"," ","*">>
    \o upper(term) \o <<"*", ".">>
delete_cancelled_text ==
    <<"D","e","l","e","t","e"," ","c","a","n","c","e","l","l","e","d",".">>
edit_cancelled_text ==
    <<"E","d","i","t"," ","c","a","n","c","e","l","l","e","d",".">>

\* the text on_mention says when the mention carries no term
give_me_text ==
    <<"G","i","v","e"," ","m","e"," ","a","n"," ","a","c","r","o","n","y","m",
      ","," ","e",".","g",".",","," ",backtick,"A","T","O",backtick>>

\* the texts of the notices after the dialog submissions
arrow == <<" ", "→", " ">>
saved_text(term, expansion) ==
    <<"S","a","v","e","d",":"," ","*">> \o upper(term) \o <<"*">> \o arrow \o expansion
updated_text(term, new_exp) ==
    <<"U","p","d","a","t","e","d",":"," ","*">> \o upper(term) \o <<"*">> \o arrow \o new_exp
updated_definition_text(term) ==
    <<"U","p","d","a","t","e","d"," ","d","e","f","i","n","i","t","i","o",
      "n"," ","f","o","r"," ","*">>
    \o upper(term) \o <<"*", ".">>

(***************************************************************************)
(* State after import: init_db() has created the empty table               *)
(***************************************************************************)
init_db ==
    /\ acronyms = {}
    /\ sqlite_sequence = 0

Init ==
    /\ init_db
    /\ msgs = [m \in Msgs |-> NoMsg]
    /\ view = NoView
    /\ last = Did("init", <<>>, "none", 0)
    /\ calls = <<>>

(***************************************************************************)
(* @app.command("/wtf")                                                    *)
(***************************************************************************)
\* the blocks of the delete listing and of the edit listing
listing(kind, select_id, cancel_id, rows, term) ==
    [kind |-> kind,
     buttons |-> [i \in 1..Len(rows) |-> Button(select_id, token(str(rows[i][1]), term))]
                 \o <<Button(cancel_id, term)>>]

\* which branch of handle_acronym the stripped text takes
route_of(text) ==
    IF text = <<>> THEN "usage"
    ELSE IF startswith(lower(text), <<"a","d","d">>) THEN "add"
    ELSE IF startswith(lower(text), <<"d","e","l","e","t","e">>) THEN "delete"
    ELSE IF startswith(lower(text), <<"e","d","i","t">>) THEN "edit"
    ELSE "lookup"

\* text = (command.get("text") or "").strip(), parts = text.split(None, 2) and
\* the branch taken, tabulated for the command texts of the model
parse_command ==
    [t \in FlowTexts \cup CommandTexts \cup ListingTexts |->
        [text |-> strip(t), parts |-> split(strip(t), 2), route |-> route_of(strip(t))]]

handle_acronym(command_text, m) ==
    LET text == parse_command[command_text].text
        parts == parse_command[command_text].parts
        route == parse_command[command_text].route
        Done(branch, n) == last' = Did("handle_acronym", <<command_text>>, branch, n)
        Calls(after_ack) == calls' = <<ack>> \o after_ack
    IN  /\ UNCHANGED <<acronyms, sqlite_sequence>>
        /\ CASE route = "usage" ->
                  /\ UNCHANGED <<msgs, view>>
                  /\ Done("usage", 0)
                  /\ Calls(<<respond(usage_text, "ephemeral")>>)
             [] route = "add" ->
                  LET prefill_term == IF Len(parts) > 1 THEN upper(parts[2]) ELSE <<>>
                  IN  /\ view' = [callback_id |-> "add_acronym",
                                  private_metadata |-> channel_id,
                                  initial_value |-> prefill_term]
                      /\ UNCHANGED msgs
                      /\ Done("add", 0)
                      /\ Calls(<<views_open("add_acronym")>>)
             [] route \in {"delete", "edit"} ->
                  IF Len(parts) < 2
                  THEN /\ UNCHANGED <<msgs, view>>
                       /\ Done(route \o "_usage", 0)
                       /\ Calls(<<respond(IF route = "delete" THEN usage_delete_text
                                                              ELSE usage_edit_text,
                                          "ephemeral")>>)
                  ELSE LET term == parts[2]
                           rows == get_acronym_ids_and_expansions(acronyms, term)
                       IN  IF rows = <<>>
                           THEN /\ UNCHANGED <<msgs, view>>
                                /\ Done(route \o "_not_found", 0)
                                /\ Calls(<<execute("SELECT"),
                                           respond(no_definitions_found(term),
                                                   "ephemeral")>>)
                           ELSE /\ msgs' = [msgs EXCEPT ![m] =
                                      IF route = "delete"
                                      THEN listing("delete_list", "delete_acronym_select",
                                                   "delete_acronym_cancel", rows, term)
                                      ELSE listing("edit_list", "edit_acronym_select",
                                                   "edit_acronym_cancel", rows, term)]
                                /\ UNCHANGED view
                                /\ Done(route \o "_list", Len(rows))
                                /\ Calls(<<execute("SELECT"),
                                           respond(which_one(term, Len(rows),
                                                       IF route = "delete" THEN verb_delete
                                                                           ELSE verb_edit),
                                                   "ephemeral")>>)
             [] route = "lookup" ->
                  LET expansions == get_acronyms(acronyms, text)
                  IN  /\ UNCHANGED <<msgs, view>>
                      /\ Done("lookup", Len(expansions))
                      /\ Calls(<<execute("SELECT"),
                                 respond(format_defs(text, expansions),
                                         IF expansions = <<>> THEN "ephemeral"
                                                              ELSE "in_channel")>>)

(***************************************************************************)
(* Button clicks: a click carries the value of a button of a rendered      *)
(* message                                                                 *)
(***************************************************************************)
Clickable(m, i, action_id) ==
    /\ i \in 1..Len(msgs[m].buttons)
    /\ msgs[m].buttons[i].action_id = action_id

\* @app.action("edit_acronym_select")
handle_edit_select(m, i) ==
    /\ Clickable(m, i, "edit_acronym_select")
    /\ LET value == msgs[m].buttons[i].value
           parts == split_bar(value)
       IN  IF Len(parts) < 2
           THEN /\ UNCHANGED <<msgs, view>>
                /\ last' = Did("handle_edit_select", <<value>>, "fault", 0)
                /\ calls' = <<ack>>
           ELSE LET aid == parts[1]
                    term == parts[2]
                    row == select_expansion(acronyms, aid)
                    exp == IF row # {} THEN CHOOSE e \in row : TRUE ELSE <<>>
                IN  /\ view' = [callback_id |-> "edit_acronym_modal",
                                private_metadata |-> token(aid, term),
                                initial_value |-> exp]
                    /\ UNCHANGED msgs
                    /\ last' = Did("handle_edit_select", <<value>>, "open", Cardinality(row))
                    /\ calls' = <<ack, execute("SELECT"), views_open("edit_acronym_modal")>>
    /\ UNCHANGED <<acronyms, sqlite_sequence>>

\* @app.action("edit_acronym_cancel")
handle_edit_cancel(m, i) ==
    /\ Clickable(m, i, "edit_acronym_cancel")
    /\ msgs' = [msgs EXCEPT ![m] = Text("edit_cancelled")]
    /\ last' = Did("handle_edit_cancel", <<msgs[m].buttons[i].value>>, "cancelled", 0)
    /\ calls' = <<ack, respond(edit_cancelled_text, "ephemeral")>>
    /\ UNCHANGED <<acronyms, sqlite_sequence, view>>

\* what handle_edit_view does after ack(): the UPDATE when it ran, then the
\* notice to channel = view["private_metadata"], then the notice to
\* channel = body["user"]["id"], each in its own try / except
edit_view_calls(updated, meta, term, new_exp, raised) ==
    <<ack>>
    \o (IF updated THEN <<execute("UPDATE")>> ELSE <<>>)
    \o (IF meta # <<>>
        THEN try_chat_postEphemeral(meta, updated_text(term, new_exp), raised[1])
        ELSE <<>>)
    \o try_chat_postEphemeral(user_id, updated_definition_text(term), raised[2])

\* handle_edit_view without the  if new_exp:  guard
handle_edit_view_no_guard(value) ==
    /\ view.callback_id = "edit_acronym_modal"
    /\ LET meta == view.private_metadata
           parts == split_bar(meta)
           new_exp == strip(value)
       IN  IF Len(parts) < 2
           THEN /\ UNCHANGED <<acronyms, sqlite_sequence>>
                /\ last' = Did("handle_edit_view", <<meta, value>>, "fault", 0)
                /\ calls' = <<ack>>
           ELSE /\ update_expansion(new_exp, parts[1])
                /\ last' = Did("handle_edit_view", <<meta, value>>,
                               IF new_exp # <<>> THEN "update" ELSE "skip",
                               Cardinality({r \in acronyms : id_matches(r, parts[1])}))
                /\ calls' = edit_view_calls(TRUE, meta, parts[2], new_exp, Delivered)
    /\ view' = NoView
    /\ UNCHANGED msgs

\* handle_edit_view without the strip() of the submitted value
handle_edit_view_no_strip(value) ==
    /\ view.callback_id = "edit_acronym_modal"
    /\ LET meta == view.private_metadata
           parts == split_bar(meta)
           new_exp == value
       IN  IF Len(parts) < 2
           THEN /\ UNCHANGED <<acronyms, sqlite_sequence>>
                /\ last' = Did("handle_edit_view", <<meta, value>>, "fault", 0)
                /\ calls' = <<ack>>
           ELSE /\ IF new_exp # <<>>
                   THEN /\ update_expansion(new_exp, parts[1])
                        /\ last' = Did("handle_edit_view", <<meta, value>>, "update",
                                Cardinality({r \in acronyms : id_matches(r, parts[1])}))
                   ELSE /\ UNCHANGED <<acronyms, sqlite_sequence>>
                        /\ last' = Did("handle_edit_view", <<meta, value>>, "skip", 0)
                /\ calls' = edit_view_calls(new_exp # <<>>, meta, parts[2], new_exp,
                                            Delivered)
    /\ view' = NoView
    /\ UNCHANGED msgs

\* handle_edit_view with conn.commit() moved behind the first notice, so that a
\* notice that raises leaves the UPDATE uncommitted
handle_edit_view_commit_after_notice(value, raised) ==
    /\ view.callback_id = "edit_acronym_modal"
    /\ LET meta == view.private_metadata
           parts == split_bar(meta)
           new_exp == strip(value)
       IN  IF Len(parts) < 2
           THEN /\ UNCHANGED <<acronyms, sqlite_sequence>>
                /\ last' = Did("handle_edit_view", <<meta, value>>, "fault", 0)
                /\ calls' = <<ack>>
           ELSE /\ IF new_exp # <<>> /\ ~raised[1]
                   THEN update_expansion(new_exp, parts[1])
                   ELSE UNCHANGED <<acronyms, sqlite_sequence>>
                /\ IF new_exp # <<>>
                   THEN last' = Did("handle_edit_view", <<meta, value>>, "update",
                                Cardinality({r \in acronyms : id_matches(r, parts[1])}))
                   ELSE last' = Did("handle_edit_view", <<meta, value>>, "skip", 0)
                /\ calls' = edit_view_calls(new_exp # <<>>, meta, parts[2], new_exp,
                                            raised)
    /\ view' = NoView
    /\ UNCHANGED msgs

\* @app.view("edit_acronym_modal"); raised[k] says whether the k-th
\* client.chat_postEphemeral call of the run raises
handle_edit_view_with(value, raised) ==
    /\ view.callback_id = "edit_acronym_modal"
    /\ LET meta == view.private_metadata
           parts == split_bar(meta)
           new_exp == strip(value)
       IN  IF Len(parts) < 2
           THEN /\ UNCHANGED <<acronyms, sqlite_sequence>>
                /\ last' = Did("handle_edit_view", <<meta, value>>, "fault", 0)
                /\ calls' = <<ack>>
           ELSE /\ IF new_exp # <<>>
                   THEN /\ update_expansion(new_exp, parts[1])
                        /\ last' = Did("handle_edit_view", <<meta, value>>, "update",
                                Cardinality({r \in acronyms : id_matches(r, parts[1])}))
                   ELSE /\ UNCHANGED <<acronyms, sqlite_sequence>>
                        /\ last' = Did("handle_edit_view", <<meta, value>>, "skip", 0)
                /\ calls' = edit_view_calls(new_exp # <<>>, meta, parts[2], new_exp,
                                            raised)
    /\ view' = NoView
    /\ UNCHANGED msgs

\* handle_delete_select running the DELETE itself, without the confirm step
handle_delete_select_deletes(m, i) ==
    /\ Clickable(m, i, "delete_acronym_select")
    /\ LET value == msgs[m].buttons[i].value
           parts == split_bar(value)
       IN  IF Len(parts) < 2 \/ ~is_decimal(parts[1])
           THEN /\ UNCHANGED <<acronyms, sqlite_sequence, msgs>>
                /\ last' = Did("handle_delete_select", <<value>>, "fault", 0)
                /\ calls' = <<ack>>
           ELSE LET aid == parts[1]
                    term == parts[2]
                    row == select_expansion(acronyms, aid)
                    exp == IF row # {} THEN CHOOSE e \in row : TRUE
                                       ELSE not_found_placeholder
                IN  /\ delete_acronym_by_id(int(aid))
                    /\ msgs' = [msgs EXCEPT ![m] =
                           [kind |-> "delete_confirm",
                            buttons |-> <<Button("delete_acronym_confirm", token(aid, term)),
                                          Button("delete_acronym_cancel", term)>>]]
                    /\ last' = Did("handle_delete_select", <<value>>, "confirm",
                                   Cardinality(row))
                    /\ calls' = <<ack, execute("SELECT"),
                                  respond(are_you_sure(term, exp), "ephemeral")>>
    /\ UNCHANGED view

\* handle_edit_view when Slack accepts both notices
handle_edit_view(value) == handle_edit_view_with(value, Delivered)

\* @app.action("delete_acronym_select")
handle_delete_select(m, i) ==
    /\ Clickable(m, i, "delete_acronym_select")
    /\ LET value == msgs[m].buttons[i].value
           parts == split_bar(value)
       IN  IF Len(parts) < 2
           THEN /\ UNCHANGED msgs
                /\ last' = Did("handle_delete_select", <<value>>, "fault", 0)
                /\ calls' = <<ack>>
           ELSE LET aid == parts[1]
                    term == parts[2]
                    row == select_expansion(acronyms, aid)
                    exp == IF row # {} THEN CHOOSE e \in row : TRUE
                                       ELSE not_found_placeholder
                IN  /\ msgs' = [msgs EXCEPT ![m] =
                           [kind |-> "delete_confirm",
                            buttons |-> <<Button("delete_acronym_confirm", token(aid, term)),
                                          Button("delete_acronym_cancel", term)>>]]
                    /\ last' = Did("handle_delete_select", <<value>>, "confirm",
                                   Cardinality(row))
                    /\ calls' = <<ack, execute("SELECT"),
                                  respond(are_you_sure(term, exp), "ephemeral")>>
    /\ UNCHANGED <<acronyms, sqlite_sequence, view>>

\* handle_delete_confirm reading row[0] of the record before the DELETE, which
\* raises when the record is gone
handle_delete_confirm_reads_row(m, i) ==
    /\ Clickable(m, i, "delete_acronym_confirm")
    /\ LET value == msgs[m].buttons[i].value
           parts == split_bar(value)
       IN  IF Len(parts) < 2 \/ ~is_decimal(parts[1])
           THEN /\ UNCHANGED <<acronyms, sqlite_sequence, msgs>>
                /\ last' = Did("handle_delete_confirm", <<value>>, "fault", 0)
                /\ calls' = <<ack>>
           ELSE IF select_expansion(acronyms, parts[1]) = {}
           THEN /\ UNCHANGED <<acronyms, sqlite_sequence, msgs>>
                /\ last' = Did("handle_delete_confirm", <<value>>, "fault", 0)
                /\ calls' = <<ack, execute("SELECT")>>
           ELSE /\ delete_acronym_by_id(int(parts[1]))
                /\ msgs' = [msgs EXCEPT ![m] = Text("deleted")]
                /\ last' = Did("handle_delete_confirm", <<value>>, "deleted",
                               Cardinality({r \in acronyms : r.id = int(parts[1])}))
                /\ calls' = <<ack, execute("SELECT"), execute("DELETE"),
                              respond(deleted_text(parts[2]), "ephemeral")>>
    /\ UNCHANGED view

\* handle_delete_confirm calling ack() after the DELETE
handle_delete_confirm_late_ack(m, i) ==
    /\ Clickable(m, i, "delete_acronym_confirm")
    /\ LET value == msgs[m].buttons[i].value
           parts == split_bar(value)
       IN  IF Len(parts) < 2 \/ ~is_decimal(parts[1])
           THEN /\ UNCHANGED <<acronyms, sqlite_sequence, msgs>>
                /\ last' = Did("handle_delete_confirm", <<value>>, "fault", 0)
                /\ calls' = <<>>
           ELSE /\ delete_acronym_by_id(int(parts[1]))
                /\ msgs' = [msgs EXCEPT ![m] = Text("deleted")]
                /\ last' = Did("handle_delete_confirm", <<value>>, "deleted",
                               Cardinality({r \in acronyms : r.id = int(parts[1])}))
                /\ calls' = <<execute("DELETE"), ack,
                              respond(deleted_text(parts[2]), "ephemeral")>>
    /\ UNCHANGED view

\* @app.action("delete_acronym_confirm")
handle_delete_confirm(m, i) ==
    /\ Clickable(m, i, "delete_acronym_confirm")
    /\ LET value == msgs[m].buttons[i].value
           parts == split_bar(value)
       IN  IF Len(parts) < 2 \/ ~is_decimal(parts[1])
           THEN /\ UNCHANGED <<acronyms, sqlite_sequence, msgs>>
                /\ last' = Did("handle_delete_confirm", <<value>>, "fault", 0)
                /\ calls' = <<ack>>
           ELSE /\ delete_acronym_by_id(int(parts[1]))
                /\ msgs' = [msgs EXCEPT ![m] = Text("deleted")]
                /\ last' = Did("handle_delete_confirm", <<value>>, "deleted",
                               Cardinality({r \in acronyms : r.id = int(parts[1])}))
                /\ calls' = <<ack, execute("DELETE"),
                              respond(deleted_text(parts[2]), "ephemeral")>>
    /\ UNCHANGED view

\* handle_delete_cancel deleting the records of the term its button carries
handle_delete_cancel_by_term(m, i) ==
    /\ Clickable(m, i, "delete_acronym_cancel")
    /\ acronyms' = {r \in acronyms : r.term # upper(strip(msgs[m].buttons[i].value))}
    /\ msgs' = [msgs EXCEPT ![m] = Text("delete_cancelled")]
    /\ last' = Did("handle_delete_cancel", <<msgs[m].buttons[i].value>>, "cancelled", 0)
    /\ calls' = <<ack, respond(delete_cancelled_text, "ephemeral")>>
    /\ UNCHANGED <<sqlite_sequence, view>>

\* @app.action("delete_acronym_cancel")
handle_delete_cancel(m, i) ==
    /\ Clickable(m, i, "delete_acronym_cancel")
    /\ msgs' = [msgs EXCEPT ![m] = Text("delete_cancelled")]
    /\ last' = Did("handle_delete_cancel", <<msgs[m].buttons[i].value>>, "cancelled", 0)
    /\ calls' = <<ack, respond(delete_cancelled_text, "ephemeral")>>
    /\ UNCHANGED <<acronyms, sqlite_sequence, view>>

\* handle_add_view sending the notice only after an insert
handle_add_view_notice_on_insert(term_value, exp_value, raised) ==
    /\ view.callback_id = "add_acronym"
    /\ LET term == strip(term_value)
           expansion == strip(exp_value)
           inserted == term # <<>> /\ expansion # <<>>
           channel == view.private_metadata
       IN  /\ IF inserted
              THEN /\ sqlite_sequence < MaxId
                   /\ add_acronym(term, expansion)
                   /\ last' = Did("handle_add_view", <<term_value, exp_value>>, "insert", 1)
              ELSE /\ UNCHANGED <<acronyms, sqlite_sequence>>
                   /\ last' = Did("handle_add_view", <<term_value, exp_value>>, "skip", 0)
           /\ calls' = <<ack>>
                       \o (IF inserted THEN <<execute("INSERT")>> ELSE <<>>)
                       \o (IF channel # <<>> /\ inserted
                           THEN try_chat_postEphemeral(channel,
                                    saved_text(term, expansion), raised)
                           ELSE <<>>)
    /\ view' = NoView
    /\ UNCHANGED msgs

\* @app.view("add_acronym"); raised says whether client.chat_postEphemeral raises
handle_add_view_with(term_value, exp_value, raised) ==
    /\ view.callback_id = "add_acronym"
    /\ LET term == strip(term_value)
           expansion == strip(exp_value)
           inserted == term # <<>> /\ expansion # <<>>
           channel == view.private_metadata
       IN  /\ IF inserted
              THEN /\ sqlite_sequence < MaxId
                   /\ add_acronym(term, expansion)
                   /\ last' = Did("handle_add_view", <<term_value, exp_value>>, "insert", 1)
              ELSE /\ UNCHANGED <<acronyms, sqlite_sequence>>
                   /\ last' = Did("handle_add_view", <<term_value, exp_value>>, "skip", 0)
           /\ calls' = <<ack>>
                       \o (IF inserted THEN <<execute("INSERT")>> ELSE <<>>)
                       \o (IF channel # <<>>
                           THEN try_chat_postEphemeral(channel,
                                    saved_text(term, expansion), raised)
                           ELSE <<>>)
    /\ view' = NoView
    /\ UNCHANGED msgs

\* handle_add_view when Slack accepts the notice
handle_add_view(term_value, exp_value) == handle_add_view_with(term_value, exp_value, FALSE)

\* @app.event("app_mention")
on_mention(event_text) ==
    LET term == strip(re_sub_mention(event_text))
        expansions == get_acronyms(acronyms, term)
    IN  /\ IF term = <<>>
           THEN /\ last' = Did("on_mention", <<event_text>>, "hint", 0)
                /\ calls' = <<say(give_me_text)>>
           ELSE /\ last' = Did("on_mention", <<event_text>>, "lookup", Len(expansions))
                /\ calls' = <<execute("SELECT"), say(format_defs(term, expansions))>>
        /\ UNCHANGED <<acronyms, sqlite_sequence, msgs, view>>

(***************************************************************************)
(* The bot: every inbound event is one handler run                         *)
(***************************************************************************)
Slots == 1..(MaxId + 1)

Next ==
    \/ \E text \in FlowTexts, m \in Msgs : handle_acronym(text, m)
    \/ \E m \in Msgs, i \in Slots : handle_edit_select(m, i)
    \/ \E m \in Msgs, i \in Slots : handle_edit_cancel(m, i)
    \/ \E value \in ExpansionInputs : handle_edit_view(value)
    \/ \E m \in Msgs, i \in Slots : handle_delete_select(m, i)
    \/ \E m \in Msgs, i \in Slots : handle_delete_confirm(m, i)
    \/ \E m \in Msgs, i \in Slots : handle_delete_cancel(m, i)
    \/ \E t \in TermInputs, e \in ExpansionInputs : handle_add_view(t, e)

Spec == Init /\ [][Next]_vars

(***************************************************************************)
(* The router alone: every command text, over the stores that add-dialog   *)
(* submissions build                                                       *)
(***************************************************************************)
RouterNext ==
    \/ \E text \in CommandTexts, m \in Msgs : handle_acronym(text, m)
    \/ \E t \in TermInputs, e \in ExpansionInputs : handle_add_view(t, e)

RouterSpec == Init /\ [][RouterNext]_vars

(***************************************************************************)
(* The store functions called directly, as a test or another module would  *)
(***************************************************************************)
call_add_acronym(term, expansion) ==
    /\ sqlite_sequence < MaxId \/ upper(strip(term)) = <<>> \/ strip(expansion) = <<>>
    /\ add_acronym(term, expansion)
    /\ last' = Did("add_acronym", <<term, expansion>>, "call",
                   Cardinality(acronyms') - Cardinality(acronyms))
    /\ calls' = IF acronyms' # acronyms THEN <<execute("INSERT")>> ELSE <<>>
    /\ UNCHANGED <<msgs, view>>

call_delete_acronym_by_id(acronym_id) ==
    /\ delete_acronym_by_id(acronym_id)
    /\ last' = Did("delete_acronym_by_id", <<str(acronym_id)>>, "call",
                   Cardinality(acronyms) - Cardinality(acronyms'))
    /\ calls' = <<execute("DELETE")>>
    /\ UNCHANGED <<msgs, view>>

StoreNext ==
    \/ \E t \in TermInputs, e \in ExpansionInputs : call_add_acronym(t, e)
    \/ \E id \in 0..(MaxId + 1) : call_delete_acronym_by_id(id)

StoreSpec == Init /\ [][StoreNext]_vars

(***************************************************************************)
(* Two users at once: each has a rendered message of their own, their      *)
(* clicks interleave, and records are added while the messages are shown   *)
(***************************************************************************)
TwoMsgs == {"m1", "m2"}

TwoUserTexts ==
    { <<"d","e","l","e","t","e"," ","x">>,
      <<"e","d","i","t"," ","x">> }

TwoUserInit ==
    /\ init_db
    /\ msgs = [m \in TwoMsgs |-> NoMsg]
    /\ view = NoView
    /\ last = Did("init", <<>>, "none", 0)
    /\ calls = <<>>

TwoUserNext ==
    \/ \E text \in TwoUserTexts, m \in TwoMsgs : handle_acronym(text, m)
    \/ \E m \in TwoMsgs, i \in Slots : handle_edit_select(m, i)
    \/ \E value \in {<<" ","b"," ","c"," ">>} : handle_edit_view(value)
    \/ \E m \in TwoMsgs, i \in Slots : handle_delete_select(m, i)
    \/ \E m \in TwoMsgs, i \in Slots : handle_delete_confirm(m, i)
    \/ \E t \in {<<"x">>, <<"y">>}, e \in {<<"a">>} : call_add_acronym(t, e)

TwoUserSpec == TwoUserInit /\ [][TwoUserNext]_vars

(***************************************************************************)
(* The dialogs alone: the add and edit flows, with Slack accepting or      *)
(* refusing each notice                                                    *)
(***************************************************************************)
NoticeTexts ==
    { <<"a","d","d">>,
      <<"e","d","i","t"," ","x">>,
      <<"E","D","I","T"," ","y">> }

NoticeNext ==
    \/ \E text \in NoticeTexts, m \in Msgs : handle_acronym(text, m)
    \/ \E m \in Msgs, i \in Slots : handle_edit_select(m, i)
    \/ \E value \in ExpansionInputs, raised \in Raised \X Raised :
          handle_edit_view_with(value, raised)
    \/ \E t \in TermInputs, e \in ExpansionInputs, raised \in Raised :
          handle_add_view_with(t, e, raised)

NoticeSpec == Init /\ [][NoticeNext]_vars

(***************************************************************************)
(* format_defs called directly, on any term and any list of expansions     *)
(* the dialogs can store (their expansion field is multiline)              *)
(***************************************************************************)
E_two_lines == <<"a","\n","b">>

FormatExpansions == { <<"a">>, <<"b"," ","c">>, E_two_lines }

RECURSIVE lists_of(_, _)
lists_of(S, n) ==
    IF n = 0 THEN {<<>>}
    ELSE lists_of(S, n - 1) \cup {Append(l, x) : l \in lists_of(S, n - 1), x \in S}

FormatInputs == lists_of(FormatExpansions, MaxLines)

call_format_defs(term, expansions) ==
    /\ last' = Did("format_defs", <<term>> \o expansions, "call", Len(expansions))
    /\ calls' = <<Call("return", <<>>, "", format_defs(term, expansions))>>
    /\ UNCHANGED <<acronyms, sqlite_sequence, msgs, view>>

FormatNext ==
    \E term \in TermInputs \cup {<<"\t","Y","\n">>, <<"x","y">>, <<>>},
       expansions \in FormatInputs :
        call_format_defs(term, expansions)

FormatSpec == Init /\ [][FormatNext]_vars

(***************************************************************************)
(* The listings: terms with and without "|" are added, listed for delete   *)
(* and for edit, and a button of the listing is clicked                    *)
(***************************************************************************)
ListingNext ==
    \/ \E text \in ListingTexts \cup {<<"a","d","d">>}, m \in Msgs : handle_acronym(text, m)
    \/ \E t \in ListingTerms, e \in ExpansionInputs : handle_add_view(t, e)
    \/ \E m \in Msgs, i \in Slots : handle_delete_select(m, i)
    \/ \E m \in Msgs, i \in Slots : handle_edit_select(m, i)

ListingSpec == Init /\ [][ListingNext]_vars

(***************************************************************************)
(* Every kind of inbound event: the slash command on every branch of the   *)
(* router, every button, both dialog submissions and the mention           *)
(***************************************************************************)
\* command["text"] of /wtf: one text for each branch of handle_acronym
EventTexts ==
    { <<>>,
      <<"x">>,
      <<"a","d","d">>,
      <<"d","e","l","e","t","e">>,
      <<"d","e","l","e","t","e"," ","x">>,
      <<"e","d","i","t">>,
      <<"e","d","i","t"," ","x">> }

\* the term field of the add dialog, blank or the term of those texts
EventTerms == { <<" ">>, <<"x">> }

EventNext ==
    \/ \E text \in EventTexts, m \in Msgs : handle_acronym(text, m)
    \/ \E m \in Msgs, i \in Slots : handle_edit_select(m, i)
    \/ \E m \in Msgs, i \in Slots : handle_edit_cancel(m, i)
    \/ \E value \in ExpansionInputs : handle_edit_view(value)
    \/ \E m \in Msgs, i \in Slots : handle_delete_select(m, i)
    \/ \E m \in Msgs, i \in Slots : handle_delete_confirm(m, i)
    \/ \E m \in Msgs, i \in Slots : handle_delete_cancel(m, i)
    \/ \E t \in EventTerms, e \in ExpansionInputs : handle_add_view(t, e)
    \/ \E event_text \in MentionTexts : on_mention(event_text)

EventSpec == Init /\ [][EventNext]_vars

(***************************************************************************)
(* Vocabulary of the properties                                            *)
(***************************************************************************)
\* normalize = trim + uppercase
normalize(term) == upper(strip(term))

blank(s) == strip(s) = <<>>

\* the terms lookups are tried on
LookupTerms ==
    TermInputs \cup { <<"X">>, <<"Y">>, <<"y"," ">>, <<"\t","Y","\n">>, <<"x","y">>, <<>> }

\* the id an id|term token carries
token_id(value) == int(split_bar(value)[1])

ids_of(rows) == {rows[i][1] : i \in 1..Len(rows)}

T_x == <<"x">>
T_y == <<"y">>
E_a == <<"a">>
E_bc == <<"b"," ","c">>
E_bc_padded == <<" ","b"," ","c"," ">>

(***************************************************************************)
(* C1: every stored record has a non-empty term that equals its trimmed,   *)
(* uppercased form and a non-empty expansion without leading or trailing   *)
(* whitespace, after any sequence of add submissions, edit submissions and *)
(* delete confirmations.                                                   *)
(***************************************************************************)
C1_StoredRecordsNormalized ==
    \A r \in acronyms :
        /\ r.term # <<>>
        /\ r.term = upper(strip(r.term))
        /\ r.expansion # <<>>
        /\ r.expansion = strip(r.expansion)

\* an edit with a padded value has just rewritten one of several records
C1_Witness ==
    /\ last.op = "handle_edit_view"
    /\ last.route = "update"
    /\ last.rowcount = 1
    /\ last.args[2] = E_bc_padded
    /\ Cardinality(acronyms) >= 2
    /\ \E r \in acronyms : r.id = token_id(last.args[1]) /\ r.expansion = E_bc

(***************************************************************************)
(* C2: the router dispatches on the first whitespace-delimited token only: *)
(* add, delete, edit exactly when that token equals the word               *)
(* (case-insensitively), and every other non-empty text is a lookup of the *)
(* whole text.                                                             *)
(***************************************************************************)
first_token(text) ==
    LET parts == split(text, Len(text)) IN IF parts = <<>> THEN <<>> ELSE parts[1]

expected_branch(text) ==
    LET word == lower(first_token(text))
    IN  IF strip(text) = <<>> THEN "usage"
        ELSE IF word = <<"a","d","d">> THEN "add"
        ELSE IF word = <<"d","e","l","e","t","e">> THEN "delete"
        ELSE IF word = <<"e","d","i","t">> THEN "edit"
        ELSE "lookup"

branch_of(route) ==
    IF route \in {"delete_usage", "delete_not_found", "delete_list"} THEN "delete"
    ELSE IF route \in {"edit_usage", "edit_not_found", "edit_list"} THEN "edit"
    ELSE route

C2_RouterByFirstToken ==
    last.op = "handle_acronym" => branch_of(last.route) = expected_branch(last.args[1])

(***************************************************************************)
(* C3: add_acronym with a term or an expansion that is empty after         *)
(* trimming leaves the store unchanged: the row count does not grow and no *)
(* existing record is modified, in any store state.                        *)
(***************************************************************************)
C3_BlankInsertIsNoOp ==
    [][\A t \in TermInputs, e \in ExpansionInputs :
          (call_add_acronym(t, e) /\ (blank(t) \/ blank(e)))
              => /\ Cardinality(acronyms') <= Cardinality(acronyms)
                 /\ acronyms \subseteq acronyms'
                 /\ sqlite_sequence' = sqlite_sequence]_vars

\* a blank expansion was given for a real term while the store held records
C3_Witness ==
    /\ last.op = "add_acronym"
    /\ ~blank(last.args[1])
    /\ blank(last.args[2])
    /\ last.rowcount = 0
    /\ Cardinality(acronyms) >= 2

(***************************************************************************)
(* C4: for non-blank T and E, add_acronym(T, E) makes get_acronyms(T) the  *)
(* previous get_acronyms(T) with trim(E) appended; and a lookup always     *)
(* lists the expansions of the matching records in ascending id order.     *)
(***************************************************************************)
LookupInIdOrder ==
    \A T \in LookupTerms :
        LET rows == get_acronym_ids_and_expansions(acronyms, T)
            exps == get_acronyms(acronyms, T)
        IN  /\ Len(exps) = Len(rows)
            /\ \A i \in 1..Len(rows) : exps[i] = rows[i][2]
            /\ \A i, j \in 1..Len(rows) : i < j => rows[i][1] < rows[j][1]
            /\ {[id |-> rows[i][1], term |-> normalize(T), expansion |-> rows[i][2]]
                    : i \in 1..Len(rows)}
               = {r \in acronyms : r.term = normalize(T)}

InsertAppends ==
    \A t \in TermInputs, e \in ExpansionInputs :
        (call_add_acronym(t, e) /\ ~blank(t) /\ ~blank(e))
            => get_acronyms(acronyms', t) = Append(get_acronyms(acronyms, t), strip(e))

C4_InsertAppendsToLookup == []LookupInIdOrder /\ [][InsertAppends]_vars

\* a third expansion of one term was added, padded, behind two older ones
C4_Witness ==
    /\ last.op = "add_acronym"
    /\ last.rowcount = 1
    /\ last.args[2] = E_bc_padded
    /\ LET exps == get_acronyms(acronyms, last.args[1])
       IN  Len(exps) = 3 /\ exps[3] = E_bc /\ exps[1] = E_a

(***************************************************************************)
(* C5: get_acronyms(T) and get_acronym_ids_and_expansions(T) give the same *)
(* result for T and for normalize(T), and two terms with different         *)
(* normalized forms never match the same record.                           *)
(***************************************************************************)
C5_LookupNormalizes ==
    /\ \A T \in LookupTerms :
          /\ get_acronyms(acronyms, T) = get_acronyms(acronyms, normalize(T))
          /\ get_acronym_ids_and_expansions(acronyms, T)
             = get_acronym_ids_and_expansions(acronyms, normalize(T))
    /\ \A T1, T2 \in LookupTerms :
          normalize(T1) # normalize(T2)
              => ids_of(get_acronym_ids_and_expansions(acronyms, T1))
                 \cap ids_of(get_acronym_ids_and_expansions(acronyms, T2)) = {}

\* two records of X and one of Y are found under padded, mixed-case terms
C5_Witness ==
    /\ Len(get_acronyms(acronyms, <<" ","x"," ">>)) = 2
    /\ Len(get_acronyms(acronyms, <<"\t","Y","\n">>)) = 1
    /\ last.op = "add_acronym"

(***************************************************************************)
(* C6: after delete_acronym_by_id(id) no record has that id and no lookup  *)
(* with ids lists it; deleting an id that is absent (deleted before, or    *)
(* never assigned) leaves the store unchanged.                             *)
(***************************************************************************)
C6_DeleteIsIdempotent ==
    [][\A id \in 0..(MaxId + 1) :
          call_delete_acronym_by_id(id)
              => /\ \A r \in acronyms' : r.id # id
                 /\ \A T \in LookupTerms :
                       id \notin ids_of(get_acronym_ids_and_expansions(acronyms', T))
                 /\ (\A r \in acronyms : r.id # id)
                       => (acronyms' = acronyms /\ sqlite_sequence' = sqlite_sequence)]_vars

\* an id that had been assigned and deleted is deleted again, other records remain
C6_Witness ==
    /\ last.op = "delete_acronym_by_id"
    /\ last.rowcount = 0
    /\ int(last.args[1]) \in 1..sqlite_sequence
    /\ acronyms # {}
    /\ \E r \in acronyms : r.id > int(last.args[1])

(***************************************************************************)
(* C7: a delete confirmation removes at most one record, the one whose id  *)
(* is in the token; every other record keeps its id, term and expansion    *)
(* and its relative order in the lookups.                                  *)
(***************************************************************************)
C7_DeleteRemovesOnlyThatId ==
    [][\A m \in Msgs, i \in Slots :
          handle_delete_confirm(m, i)
              => LET id == token_id(msgs[m].buttons[i].value)
                 IN  /\ last'.route # "fault"
                     /\ acronyms' = {r \in acronyms : r.id # id}
                     /\ Cardinality(acronyms) - Cardinality(acronyms') <= 1
                     /\ \A T \in LookupTerms :
                           get_acronym_ids_and_expansions(acronyms', T)
                           = SelectSeq(get_acronym_ids_and_expansions(acronyms, T),
                                       LAMBDA p : p[1] # id)]_vars

\* A then B were added under one term, the first was deleted: the lookup is [B]
C7_Witness ==
    /\ last.op = "handle_delete_confirm"
    /\ last.rowcount = 1
    /\ last.args = <<token(str(1), T_x)>>
    /\ get_acronym_ids_and_expansions(acronyms, T_x) = << <<2, E_bc>>, <<3, E_a>> >>

(***************************************************************************)
(* C8: an edit submission whose new expansion is empty after trimming      *)
(* leaves the whole store unchanged, however often it is repeated.         *)
(***************************************************************************)
C8_BlankEditIsNoOp ==
    [][\A v \in ExpansionInputs :
          (handle_edit_view(v) /\ blank(v))
              => (acronyms' = acronyms /\ sqlite_sequence' = sqlite_sequence)]_vars

\* a blank value was submitted for a record that exists, and it kept its expansion
C8_Witness ==
    /\ last.op = "handle_edit_view"
    /\ last.route = "skip"
    /\ blank(last.args[2])
    /\ \E r \in acronyms : r.id = token_id(last.args[1]) /\ r.expansion = E_bc

(***************************************************************************)
(* C9 as stated: for an id that exists and a non-blank E2, the edit        *)
(* submission of E2 followed by the fetch of that id returns E2.           *)
(***************************************************************************)
C9_FetchReturnsSubmitted ==
    (last.op = "handle_edit_view" /\ last.route = "update" /\ last.rowcount = 1)
        => select_expansion(acronyms, split_bar(last.args[1])[1]) = {last.args[2]}

(***************************************************************************)
(* C9 amended: for an id that exists and a non-blank E2, the edit          *)
(* submission of E2 followed by the fetch of that id returns E2 trimmed of *)
(* leading and trailing whitespace, and the lookups of the record's term   *)
(* show trim(E2) at the position the old expansion had.                    *)
(***************************************************************************)
C9_FetchReturnsTrimmed ==
    [][\A v \in ExpansionInputs :
          (/\ handle_edit_view(v)
           /\ ~blank(v)
           /\ \E r \in acronyms : r.id = token_id(view.private_metadata))
              => LET aid == split_bar(view.private_metadata)[1]
                     id == token_id(view.private_metadata)
                     old == CHOOSE r \in acronyms : r.id = id
                     before == get_acronym_ids_and_expansions(acronyms, old.term)
                     after == get_acronym_ids_and_expansions(acronyms', old.term)
                 IN  /\ select_expansion(acronyms', aid) = {strip(v)}
                     /\ after = [k \in 1..Len(before) |->
                                    IF before[k][1] = id THEN <<id, strip(v)>>
                                    ELSE before[k]]
                     /\ get_acronyms(acronyms', old.term)
                        = [k \in 1..Len(before) |-> after[k][2]]]_vars

\* the first of two records of a term was edited with a padded value
C9_Witness ==
    /\ last.op = "handle_edit_view"
    /\ last.route = "update"
    /\ last.rowcount = 1
    /\ last.args = <<token(str(1), T_x), E_bc_padded>>
    /\ get_acronym_ids_and_expansions(acronyms, T_x) = << <<1, E_bc>>, <<2, E_a>> >>

(***************************************************************************)
(* C10: an edit submission never changes the id or term of a record, never *)
(* changes the expansion of a record other than the one whose id is in the *)
(* token, never changes the number of records, and changes nothing at all  *)
(* when the token's id has no record.                                      *)
(***************************************************************************)
C10_EditTouchesOnlyThatExpansion ==
    [][\A v \in ExpansionInputs :
          handle_edit_view(v)
              => LET id == token_id(view.private_metadata)
                 IN  /\ {<<r.id, r.term>> : r \in acronyms'}
                        = {<<r.id, r.term>> : r \in acronyms}
                     /\ \A r \in acronyms : r.id # id => r \in acronyms'
                     /\ Cardinality(acronyms') = Cardinality(acronyms)
                     /\ sqlite_sequence' = sqlite_sequence
                     /\ (\A r \in acronyms : r.id # id) => acronyms' = acronyms]_vars

\* a non-blank edit arrived for an id deleted since its dialog was opened
C10_Witness ==
    /\ last.op = "handle_edit_view"
    /\ last.route = "update"
    /\ last.rowcount = 0
    /\ acronyms # {}
    /\ token_id(last.args[1]) \in 1..sqlite_sequence

(***************************************************************************)
(* C11: each delete flow (one rendered message) goes                       *)
(* selecting -> confirming -> {deleted, cancelled}: a record leaves the    *)
(* store only in the step of a confirm click that takes the message from   *)
(* the confirmation prompt to the deleted acknowledgment, never in a       *)
(* listing, a select click or a cancel; and a message that shows the       *)
(* deleted or cancelled acknowledgment has no button and is changed by no  *)
(* click.                                                                  *)
(***************************************************************************)
flow_state(msg) ==
    CASE msg.kind = "delete_list" -> "selecting"
      [] msg.kind = "delete_confirm" -> "confirming"
      [] msg.kind = "deleted" -> "deleted"
      [] msg.kind = "delete_cancelled" -> "cancelled"
      [] OTHER -> "none"

TerminalHasNoButton ==
    \A m \in DOMAIN msgs :
        flow_state(msgs[m]) \in {"deleted", "cancelled"} => msgs[m].buttons = <<>>

DeleteFlowStep ==
    /\ (\E r \in acronyms : r \notin acronyms' /\ \A x \in acronyms' : x.id # r.id)
          => /\ last'.op = "handle_delete_confirm"
             /\ \E m \in DOMAIN msgs : /\ flow_state(msgs[m]) = "confirming"
                                       /\ flow_state(msgs'[m]) = "deleted"
    /\ \A m \in DOMAIN msgs :
          (msgs'[m] # msgs[m] /\ last'.op # "handle_acronym")
              => << flow_state(msgs[m]), last'.op, flow_state(msgs'[m]) >>
                 \in { <<"selecting", "handle_delete_select", "confirming">>,
                       <<"selecting", "handle_delete_cancel", "cancelled">>,
                       <<"confirming", "handle_delete_confirm", "deleted">>,
                       <<"confirming", "handle_delete_cancel", "cancelled">>,
                       <<"none", "handle_edit_cancel", "none">> }
    /\ last'.op \in {"handle_delete_select", "handle_delete_cancel"}
          => acronyms' = acronyms

C11_DeleteFlow == []TerminalHasNoButton /\ [][DeleteFlowStep]_vars

\* a flow went through selecting and confirming and ended deleted, one record gone
C11_Witness ==
    /\ last.op = "handle_delete_confirm"
    /\ last.route = "deleted"
    /\ last.rowcount = 1
    /\ \E m \in DOMAIN msgs : flow_state(msgs[m]) = "deleted" /\ msgs[m].buttons = <<>>
    /\ acronyms # {}

(***************************************************************************)
(* C12: when a select click carries a token whose id has no record any     *)
(* more, the handler does not fault and the user is shown the              *)
(* "(definition not found)" placeholder in place of the expansion: in the  *)
(* confirmation prompt of the delete-select step, and in the pre-filled    *)
(* field of the dialog of the edit-select step.                            *)
(***************************************************************************)
shown_texts == {calls[k].text : k \in {j \in DOMAIN calls : calls[j].call = "respond"}}

StaleDeleteSelectShowsPlaceholder ==
    (last.op = "handle_delete_select" /\ last.rowcount = 0)
        => /\ last.route = "confirm"
           /\ shown_texts
              = {are_you_sure(split_bar(last.args[1])[2], not_found_placeholder)}

StaleEditSelectShowsPlaceholder ==
    (last.op = "handle_edit_select" /\ last.rowcount = 0)
        => /\ last.route = "open"
           /\ view.callback_id = "edit_acronym_modal"
           /\ view.initial_value = not_found_placeholder

C12_StaleSelectShowsPlaceholder ==
    StaleDeleteSelectShowsPlaceholder /\ StaleEditSelectShowsPlaceholder

(***************************************************************************)
(* C13: when two users confirm the deletion of the same id, in any         *)
(* interleaving with each other and with additions and edits of other      *)
(* records, both confirmations complete without fault, the record is       *)
(* removed once and stays removed, and the store after the second          *)
(* confirmation is the store a single delete of that id gives: no other    *)
(* record is removed or altered.                                           *)
(***************************************************************************)
ConfirmRemovesAtMostThatId ==
    \A m \in DOMAIN msgs, i \in Slots :
        handle_delete_confirm(m, i)
            => LET id == token_id(msgs[m].buttons[i].value)
               IN  /\ last'.route = "deleted"
                   /\ msgs'[m] = Text("deleted")
                   /\ acronyms' = {r \in acronyms : r.id # id}
                   /\ (\A r \in acronyms : r.id # id) => acronyms' = acronyms
                   /\ sqlite_sequence' = sqlite_sequence

RemovedStaysRemoved ==
    \A id \in 1..sqlite_sequence :
        (\A r \in acronyms : r.id # id) => (\A r \in acronyms' : r.id # id)

C13_ConcurrentConfirms == [][ConfirmRemovesAtMostThatId /\ RemovedStaysRemoved]_vars

\* both users' messages show the deleted acknowledgment, the second
\* confirmation found no record, and one id only has ever left the store, so
\* both confirmations carried it; meanwhile another record was edited
C13_Witness ==
    /\ last.op = "handle_delete_confirm"
    /\ last.route = "deleted"
    /\ last.rowcount = 0
    /\ \A m \in TwoMsgs : m \in DOMAIN msgs /\ msgs[m] = Text("deleted")
    /\ Cardinality(acronyms) = sqlite_sequence - 1
    /\ \A r \in acronyms : r.id # token_id(last.args[1])
    /\ \E r \in acronyms : r.expansion = E_bc

(***************************************************************************)
(* C14: an add submission with a blank term or a blank expansion, and an   *)
(* edit submission with a blank replacement, write and change no record,   *)
(* and the handler still sends the confirmation notice ("Saved" /          *)
(* "Updated") with the values given, the same notice as a submission that  *)
(* writes sends.                                                           *)
(***************************************************************************)
notices(cs) == SelectSeq(cs, LAMBDA c : c.call = "chat_postEphemeral")

AddNotice ==
    \A t \in TermInputs, e \in ExpansionInputs, raised \in Raised :
        handle_add_view_with(t, e, raised)
            => /\ notices(calls')
                  = <<chat_postEphemeral(channel_id, saved_text(strip(t), strip(e)))>>
               /\ (blank(t) \/ blank(e))
                     => (acronyms' = acronyms /\ sqlite_sequence' = sqlite_sequence)

EditNotice ==
    \A v \in ExpansionInputs, raised \in Raised \X Raised :
        handle_edit_view_with(v, raised)
            => LET term == split_bar(view.private_metadata)[2]
                   sent == notices(calls')
               IN  /\ Len(sent) >= 1
                   /\ sent[1].text = updated_text(term, strip(v))
                   /\ blank(v)
                         => (acronyms' = acronyms /\ sqlite_sequence' = sqlite_sequence)

C14_BlankSubmissionStillNotifies == [][AddNotice /\ EditNotice]_vars

\* a blank expansion was submitted for the term X: nothing was added to the
\* two records, and "Saved: *X* -> " was sent
C14_Witness ==
    /\ last.op = "handle_add_view"
    /\ last.route = "skip"
    /\ last.args = << <<" ","X"," ">>, <<" ","\n">> >>
    /\ Cardinality(acronyms) = 2
    /\ notices(calls) = <<chat_postEphemeral(channel_id, saved_text(<<"X">>, <<>>))>>

(***************************************************************************)
(* C15: when sending a notice raises after an add or edit submission, the  *)
(* exception is caught and logged, the handler runs to its end, and the    *)
(* store is what it is when the notice is delivered: the write made        *)
(* earlier in the handler stays.                                           *)
(***************************************************************************)
\* every chat_postEphemeral of the run is followed by logger.exception
\* exactly when it raised, and the calls after it are still made
caught(cs, raised) ==
    LET at == SelectSeq([k \in 1..Len(cs) |-> k],
                        LAMBDA k : cs[k].call = "chat_postEphemeral")
    IN  /\ Len(at) = Len(raised)
        /\ \A n \in 1..Len(at) :
              raised[n] <=> (at[n] < Len(cs) /\ cs[at[n] + 1] = logger_exception)
        /\ cs[Len(cs)].call \in {"chat_postEphemeral", "logger.exception"}

AddSurvivesNoticeFailure ==
    \A t \in TermInputs, e \in ExpansionInputs, raised \in Raised :
        handle_add_view_with(t, e, raised)
            => /\ last'.route \in {"insert", "skip"}
               /\ caught(calls', <<raised>>)
               /\ view' = NoView
               /\ acronyms' = IF blank(t) \/ blank(e) THEN acronyms
                              ELSE acronyms \cup {[id |-> sqlite_sequence + 1,
                                                   term |-> normalize(t),
                                                   expansion |-> strip(e)]}

EditSurvivesNoticeFailure ==
    \A v \in ExpansionInputs, raised \in Raised \X Raised :
        handle_edit_view_with(v, raised)
            => LET id == token_id(view.private_metadata)
               IN  /\ last'.route \in {"update", "skip"}
                   /\ caught(calls', raised)
                   /\ view' = NoView
                   /\ acronyms' = IF blank(v) THEN acronyms
                                  ELSE {IF r.id = id THEN [r EXCEPT !.expansion = strip(v)]
                                        ELSE r : r \in acronyms}

C15_NoticeFailureKeepsWrite ==
    [][AddSurvivesNoticeFailure /\ EditSurvivesNoticeFailure]_vars

\* both notices of an edit submission raised, both were logged, and the record
\* carries the new expansion
C15_Witness ==
    /\ last.op = "handle_edit_view"
    /\ last.route = "update"
    /\ last.rowcount = 1
    /\ last.args[2] = E_bc_padded
    /\ Len(SelectSeq(calls, LAMBDA c : c = logger_exception)) = 2
    /\ \E r \in acronyms : r.id = token_id(last.args[1]) /\ r.expansion = E_bc

(***************************************************************************)
(* C16: a bare lookup command (a text that is not empty and whose first    *)
(* token is none of add, delete, edit) is answered with one reply, visible *)
(* only to the requester ("ephemeral") exactly when the lookup returns no  *)
(* expansion and visible to the whole channel ("in_channel") exactly when  *)
(* it returns at least one; the usage help, the "no definitions found"     *)
(* reply and the delete and edit listings are always ephemeral.            *)
(***************************************************************************)
replies(cs) == SelectSeq(cs, LAMBDA c : c.call = "respond")

\* the visibility of the replies of the branches the code takes
ReplyVisibilityAsRouted ==
    last.op = "handle_acronym"
        => /\ last.route = "lookup"
                 => /\ Len(replies(calls)) = 1
                    /\ replies(calls)[1].response_type
                       = IF get_acronyms(acronyms, last.args[1]) = <<>>
                         THEN "ephemeral" ELSE "in_channel"
           /\ last.route \in {"usage", "delete_usage", "edit_usage", "delete_not_found",
                              "edit_not_found", "delete_list", "edit_list"}
                 => /\ Len(replies(calls)) = 1
                    /\ replies(calls)[1].response_type = "ephemeral"

\* a bare lookup command gets the lookup reply
BareLookupIsAnswered ==
    (last.op = "handle_acronym" /\ expected_branch(last.args[1]) = "lookup")
        => last.route = "lookup"

C16_ReplyVisibility == ReplyVisibilityAsRouted /\ BareLookupIsAnswered

(***************************************************************************)
(* C17: in every slash-command, button-click and dialog-submission handler *)
(* the acknowledgement of the event is the first thing the handler does:   *)
(* it comes before every store read or write, every dialog open and every  *)
(* reply or notice of that run, and every change of the store, of the      *)
(* dialog and of a message is made by a call that comes after it.          *)
(***************************************************************************)
Handlers ==
    {"handle_acronym", "handle_edit_select", "handle_edit_cancel", "handle_edit_view",
     "handle_delete_select", "handle_delete_confirm", "handle_delete_cancel",
     "handle_add_view"}

AckFirst ==
    last.op \in Handlers
        => /\ calls # <<>>
           /\ calls[1] = ack
           /\ \A k \in 2..Len(calls) : calls[k] # ack

did_after_ack(cs, names) == \E k \in 2..Len(cs) : cs[k].call \in names

EffectsFollowAck ==
    /\ acronyms' # acronyms => did_after_ack(calls', {"INSERT", "UPDATE", "DELETE"})
    /\ (view' # view /\ view' # NoView) => did_after_ack(calls', {"views_open"})
    /\ msgs' # msgs => did_after_ack(calls', {"respond"})

C17_AckPrecedesEverything == []AckFirst /\ [][EffectsFollowAck]_vars

\* a delete confirmation has run: ack, then the DELETE of a record, then the reply
C17_Witness ==
    /\ last.op = "handle_delete_confirm"
    /\ last.rowcount = 1
    /\ calls = <<ack, execute("DELETE"), respond(deleted_text(T_x), "ephemeral")>>
    /\ acronyms # {}

(***************************************************************************)
(* C18 as stated: format_defs(term, expansions) returns, for an empty      *)
(* list, the "Nothing for *TERM* yet" message naming the trimmed,          *)
(* uppercased term; otherwise a header stating N = the number of           *)
(* expansions followed by exactly N lines numbered 1..N, the i-th line     *)
(* carrying the i-th expansion in the order given.                         *)
(***************************************************************************)
\* str.split("\n")
RECURSIVE split_lines(_)
split_lines(s) ==
    IF \E i \in 1..Len(s) : s[i] = "\n"
    THEN LET k == CHOOSE i \in 1..Len(s) : s[i] = "\n" /\ \A j \in 1..(i - 1) : s[j] # "\n"
         IN  <<SubSeq(s, 1, k - 1)>> \o split_lines(SubSeq(s, k + 1, Len(s)))
    ELSE <<s>>

expected_header(term, n) ==
    <<"*">> \o normalize(term) \o <<"*"," ","h","a","s"," ">> \o str(n)
    \o <<" ","m","e","a","n","i","n","g","(","s",")",":">>

expected_line(i, expansion) == str(i) \o <<".", " ">> \o expansion

starts_with_nothing_for(out, term) ==
    LET opening == <<"N","o","t","h","i","n","g"," ","f","o","r"," ","*">>
                   \o normalize(term) \o <<"*"," ","y","e","t">>
    IN  startswith(out, opening) /\ Len(split_lines(out)) = 1

C18_ExactlyNLines ==
    last.op = "format_defs"
        => LET term == last.args[1]
               expansions == Tail(last.args)
               out == split_lines(calls[1].text)
           IN  IF expansions = <<>>
               THEN starts_with_nothing_for(calls[1].text, term)
               ELSE /\ Len(out) = Len(expansions) + 1
                    /\ out[1] = expected_header(term, Len(expansions))
                    /\ \A i \in 1..Len(expansions) :
                          out[i + 1] = expected_line(i, expansions[i])

(***************************************************************************)
(* C18 amended: for an empty list the "Nothing for *TERM* yet" message     *)
(* naming the trimmed, uppercased term; otherwise a header stating N       *)
(* followed by the N entries "i. <i-th expansion>", i = 1..N, in the order *)
(* given, each beginning on a new line. An expansion that contains line    *)
(* breaks takes as many more lines, so the entries are exactly N lines     *)
(* when no expansion contains a line break.                                *)
(***************************************************************************)
RECURSIVE lines_of_entries(_, _)
lines_of_entries(expansions, i) ==
    IF i > Len(expansions) THEN <<>>
    ELSE split_lines(expected_line(i, expansions[i])) \o lines_of_entries(expansions, i + 1)

single_line(expansion) == \A k \in 1..Len(expansion) : expansion[k] # "\n"

C18_NEntriesInOrder ==
    last.op = "format_defs"
        => LET term == last.args[1]
               expansions == Tail(last.args)
               out == split_lines(calls[1].text)
           IN  IF expansions = <<>>
               THEN starts_with_nothing_for(calls[1].text, term)
               ELSE /\ out = <<expected_header(term, Len(expansions))>>
                             \o lines_of_entries(expansions, 1)
                    /\ (\A i \in 1..Len(expansions) : single_line(expansions[i]))
                          => /\ Len(out) = Len(expansions) + 1
                             /\ \A i \in 1..Len(expansions) :
                                   out[i + 1] = expected_line(i, expansions[i])

\* three expansions of a padded term, the second of two lines: header and
\* four more lines
C18_Witness ==
    /\ last.op = "format_defs"
    /\ last.args = << <<" ","X"," ">>, E_bc, E_two_lines, E_a >>
    /\ split_lines(calls[1].text)
       = << expected_header(T_x, 3), <<"1", ".", " ", "b", " ", "c">>,
            <<"2", ".", " ", "a">>, <<"b">>, <<"3", ".", " ", "a">> >>

(***************************************************************************)
(* C19: every insert assigns an id that no record has and that was never   *)
(* assigned before, also not to a record deleted since; so the id in a     *)
(* stale token (held by a delete confirmation or an edit submission) never *)
(* comes to denote a record again, and the click or submission that        *)
(* carries it removes and modifies nothing.                                *)
(***************************************************************************)
ids_in(db) == {r.id : r \in db}

\* the ids in the tokens users hold: the buttons shown and the open edit dialog
token_buttons(msg) ==
    {i \in 1..Len(msg.buttons) :
        msg.buttons[i].action_id \in {"delete_acronym_select", "delete_acronym_confirm",
                                      "edit_acronym_select"}}

held_ids ==
    UNION {{token_id(msgs[m].buttons[i].value) : i \in token_buttons(msgs[m])}
              : m \in DOMAIN msgs}
    \cup (IF view.callback_id = "edit_acronym_modal"
          THEN {token_id(view.private_metadata)} ELSE {})

AssignedIdsAreCounted ==
    /\ ids_in(acronyms) \subseteq 1..sqlite_sequence
    /\ held_ids \subseteq 1..sqlite_sequence

InsertAssignsFreshId ==
    /\ sqlite_sequence' >= sqlite_sequence
    /\ acronyms' # acronyms
          => LET held == held_ids
             IN  /\ \A id \in ids_in(acronyms') \ ids_in(acronyms) :
                       id > sqlite_sequence /\ id \notin held
                 /\ \A id \in held :
                       id \notin ids_in(acronyms) => id \notin ids_in(acronyms')

StaleTokenChangesNothing ==
    (/\ last'.op \in {"handle_delete_confirm", "handle_edit_view"}
     /\ token_id(last'.args[1]) \notin ids_in(acronyms))
        => acronyms' = acronyms

C19_FreshIds ==
    []AssignedIdsAreCounted /\ [][InsertAssignsFreshId /\ StaleTokenChangesNothing]_vars

\* a confirmation carrying the id of a deleted record ran when every record in
\* the store had a later id: they are all still there
C19_Witness ==
    /\ last.op = "handle_delete_confirm"
    /\ last.rowcount = 0
    /\ token_id(last.args[1]) = 1
    /\ sqlite_sequence = MaxId
    /\ ids_in(acronyms) = 2..MaxId

(***************************************************************************)
(* C20: a delete or edit listing has exactly one select button per record  *)
(* of the term, in ascending id order, and one cancel button after them;   *)
(* cutting a button's id|term token at its first "|" gives the id of that  *)
(* record and the term as typed in the command, also when the term         *)
(* contains "|"; and the select handlers, decoding it so, find that record.*)
(***************************************************************************)
\* the second whitespace-delimited token of the command text
typed_term(text) == split(text, Len(text))[2]

ListingHasOneButtonPerRecord ==
    (last.op = "handle_acronym" /\ last.route \in {"delete_list", "edit_list"})
        => \A m \in DOMAIN msgs :
              LET term == typed_term(last.args[1])
                  matching == {r \in acronyms : r.term = normalize(term)}
                  bs == msgs[m].buttons
                  n == Len(bs) - 1
                  verb == IF last.route = "delete_list" THEN "delete" ELSE "edit"
              IN  /\ msgs[m].kind = last.route
                  /\ n = Cardinality(matching)
                  /\ n >= 1
                  /\ bs[n + 1] = Button(verb \o "_acronym_cancel", term)
                  /\ \A i \in 1..n :
                        /\ bs[i].action_id = verb \o "_acronym_select"
                        /\ Len(split_bar(bs[i].value)) = 2
                        /\ split_bar(bs[i].value)[2] = term
                        /\ is_decimal(split_bar(bs[i].value)[1])
                        /\ int(split_bar(bs[i].value)[1]) \in ids_in(matching)
                  /\ \A i, j \in 1..n :
                        i < j => int(split_bar(bs[i].value)[1]) < int(split_bar(bs[j].value)[1])

SelectFindsTheRecord ==
    \A m \in DOMAIN msgs, i \in Slots :
        (/\ last.op = "handle_acronym"
         /\ last.route \in {"delete_list", "edit_list"}
         /\ (handle_delete_select(m, i) \/ handle_edit_select(m, i)))
            => LET term == typed_term(last.args[1])
                   id == int(split_bar(msgs[m].buttons[i].value)[1])
                   r == CHOOSE x \in acronyms : x.id = id
               IN  /\ last'.rowcount = 1
                   /\ r.term = normalize(term)
                   /\ last'.op = "handle_delete_select"
                         => /\ shown_texts' = {are_you_sure(term, r.expansion)}
                            /\ msgs'[m].buttons
                               = <<Button("delete_acronym_confirm", token(str(id), term)),
                                   Button("delete_acronym_cancel", term)>>
                   /\ last'.op = "handle_edit_select"
                         => view' = [callback_id |-> "edit_acronym_modal",
                                     private_metadata |-> token(str(id), term),
                                     initial_value |-> r.expansion]

C20_ListingTokens == []ListingHasOneButtonPerRecord /\ [][SelectFindsTheRecord]_vars

\* the edit listing of |X|y, typed with a third word after it, shows the two
\* records of |X|Y under the tokens 1||X|y and 3||X|y, and the cancel button
C20_Witness ==
    /\ last.op = "handle_acronym"
    /\ last.route = "edit_list"
    /\ last.args = << <<"E","d","i","t"," "," ","|","X","|","y"," ","z">> >>
    /\ Cardinality(acronyms) = 3
    /\ \E m \in DOMAIN msgs :
          msgs[m].buttons
          = << Button("edit_acronym_select", <<"1","|","|","X","|","y">>),
               Button("edit_acronym_select", <<"3","|","|","X","|","y">>),
               Button("edit_acronym_cancel", <<"|","X","|","y">>) >>

(***************************************************************************)
(* C21: the edit submission handler uses the dialog's context string only  *)
(* as the id|term token: it sends exactly one confirmation notice per      *)
(* submission, addressed to the channel of the originating command or to   *)
(* the submitting user, never to a destination whose identifier is the raw *)
(* id|term string.                                                         *)
(***************************************************************************)
EditNoticeAddressedToChannelOrUser ==
    (last.op = "handle_edit_view" /\ last.route # "fault")
        => \A k \in 1..Len(notices(calls)) :
              /\ notices(calls)[k].channel \in {channel_id, user_id}
              /\ notices(calls)[k].channel # last.args[1]

ExactlyOneEditNotice ==
    (last.op = "handle_edit_view" /\ last.route # "fault")
        => Len(notices(calls)) = 1

C21_EditNoticeDestination == EditNoticeAddressedToChannelOrUser /\ ExactlyOneEditNotice

(***************************************************************************)
(* C22: the store is modified only by an add-dialog submission, an         *)
(* edit-dialog submission and a delete confirmation; every slash command,  *)
(* every select or cancel button click and every mention leaves the store  *)
(* unchanged.                                                              *)
(***************************************************************************)
StoreWriters == {"handle_add_view", "handle_edit_view", "handle_delete_confirm"}

StoreReaders ==
    {"handle_acronym", "handle_edit_select", "handle_edit_cancel",
     "handle_delete_select", "handle_delete_cancel", "on_mention"}

StoreStep ==
    /\ <<acronyms, sqlite_sequence>>' # <<acronyms, sqlite_sequence>>
          => last'.op \in StoreWriters
    /\ last'.op \in StoreReaders => UNCHANGED <<acronyms, sqlite_sequence>>
    /\ last'.op \in StoreWriters \cup StoreReaders

C22_OnlyThreeEventsWrite == [][StoreStep]_vars

\* a mention is answered from a store that the three writing events have
\* made: an insert, an update to "b c" and a delete have happened
C22_Witness ==
    /\ last.op = "on_mention"
    /\ last.route = "lookup"
    /\ last.rowcount = 1
    /\ Cardinality(acronyms) < sqlite_sequence
    /\ \E r \in acronyms : r.expansion = <<"b"," ","c">>

====
